---- MODULE Spec2Model ----
(***************************************************************************)
(* Model of NikeeAllen/innovation-dashboard.                               *)
(*                                                                         *)
(*   import_laws_from_excel.py  the spreadsheet import (Spec)              *)
(*   setup_db.py                the schema the import writes to            *)
(*   app.py                     the dashboard script    (SpecDash)         *)
(*                                                                         *)
(* A text value is a sequence of characters, each a one-character string,  *)
(* or "U+XXXX" for a character a TLA+ string cannot hold; NaN is the value *)
(* pandas gives an empty cell.                                             *)
(***************************************************************************)
EXTENDS Integers, Sequences, FiniteSets, TLC

VARIABLES
    df,                 \* the spreadsheet as read_excel returns it
    pc,                 \* position of the import script
    retained,           \* df after dropna
    jurisdictions,      \* df["Jurisdiction"].unique() still to insert
    all_sectors,        \* the set all_sectors still to insert
    i,                  \* row of the step 3 loop (1-based)
    industries,         \* industries of the current row
    k,                  \* position in industries (1-based)
    law_id,             \* cur.lastrowid after the law insert
    lawRow,             \* for each laws id, the retained row it came from
    conn,               \* the tables as the open connection sees them
    disk,               \* the tables committed to legal_data.db
    executed,           \* number of INSERT statements executed by the run
    skippedLaws,        \* times the `continue` of line 43 was taken
    skippedBarriers,    \* times the `if result` of line 59 was false
    env,                \* where a wkhtmltopdf binary can be found
    selected_industry,  \* st.selectbox
    selected_jurisdictions, \* st.multiselect
    filtered_scores,    \* the displayed score table
    legislation,        \* the displayed legislation table
    pdf                 \* outcome of the PDF export block

vars == <<df, pc, retained, jurisdictions, all_sectors, i, industries, k, law_id,
          lawRow, conn, disk, executed, skippedLaws, skippedBarriers, env,
          selected_industry, selected_jurisdictions, filtered_scores,
          legislation, pdf>>

dashVars == <<env, selected_industry, selected_jurisdictions, filtered_scores,
              legislation, pdf>>

----------------------------------------------------------------------------
(* Bounds *)

\* Largest number of rows of an imported spreadsheet.
MaxRows == 3

\* Largest number of rows of the spreadsheet the dashboard reads.
MaxDashRows == 2

----------------------------------------------------------------------------
(* Text *)

NaN == <<"nan">>

\* A name of the script no statement has assigned in this run.
Unassigned == <<"unassigned">>

notna(v) == v # NaN

\* The characters str.isspace() is true of.
Whitespace ==
    { "\t", "\n", "U+000B", "\f", "\r", "U+001C", "U+001D", "U+001E", "U+001F", " ",
      "U+0085", "U+00A0", "U+1680", "U+2000", "U+2001", "U+2002", "U+2003", "U+2004",
      "U+2005", "U+2006", "U+2007", "U+2008", "U+2009", "U+200A", "U+2028", "U+2029",
      "U+202F", "U+205F", "U+3000" }

RECURSIVE lstrip(_)
lstrip(s) ==
    IF s = <<>> THEN s
    ELSE IF Head(s) \in Whitespace THEN lstrip(Tail(s)) ELSE s

RECURSIVE rstrip(_)
rstrip(s) ==
    IF s = <<>> THEN s
    ELSE IF s[Len(s)] \in Whitespace THEN rstrip(SubSeq(s, 1, Len(s) - 1)) ELSE s

\* str.strip()
strip(s) == rstrip(lstrip(s))

RECURSIVE splitFrom(_, _, _)
splitFrom(s, sep, cur) ==
    IF s = <<>> THEN <<cur>>
    ELSE IF Head(s) = sep THEN <<cur>> \o splitFrom(Tail(s), sep, <<>>)
    ELSE splitFrom(Tail(s), sep, Append(cur, Head(s)))

\* str.split(sep) for a one-character separator
split(s, sep) == splitFrom(s, sep, <<>>)

Range(s) == {s[n] : n \in 1..Len(s)}

\* map(f, s) for the two uses of the import
stripAll(s) == [n \in 1..Len(s) |-> strip(s[n])]

RECURSIVE unique(_)
\* Series.unique(): the distinct values in order of first appearance
unique(s) ==
    IF s = <<>> THEN <<>>
    ELSE LET init == unique(SubSeq(s, 1, Len(s) - 1))
             last == s[Len(s)]
         IN  IF last \in Range(init) THEN init ELSE Append(init, last)

----------------------------------------------------------------------------
(* The imported spreadsheet *)

Row(j, l, s, ind, st) ==
    [Jurisdiction |-> j, Law |-> l, Significance |-> s,
     RelevantIndustry |-> ind, InnovationStage |-> st]

US == <<"U", "S">>
EU == <<"E", "U">>
Tech == <<"T", "e", "c", "h">>
Fin == <<"F", "i", "n">>

\* The rows a spreadsheet is drawn from: trimmed and untrimmed jurisdiction
\* names (space, carriage return, no-break space), one and several industries, a repeated industry, a trailing comma,
\* an empty industry cell, and rows missing each required field.
SampleRows ==
    { Row(US, <<"A">>, <<"S">>, Tech, NaN),
      Row(<<" ">> \o US, <<"A">>, <<"S">>, Tech \o <<",", " ">> \o Fin, <<"R", "D">>),
      Row(EU, <<"A", "\r", "\n">>, <<"U+00A0", "S">>, NaN, NaN),
      Row(EU, <<"B">>, <<"S">>, Fin \o <<",">> \o Fin, NaN),
      Row(US \o <<"\r">>, <<"B">>, <<"S">>, <<"\f">> \o Fin \o <<",">>, <<"R", "D">>),
      Row(NaN, <<"A">>, <<"S">>, Tech, NaN),
      Row(US, NaN, <<"S">>, Fin, NaN),
      Row(EU, <<"A">>, NaN, <<"B", "i", "o">>, NaN) }

RECURSIVE SeqsUpTo(_, _)
SeqsUpTo(S, n) ==
    IF n = 0 THEN {<<>>}
    ELSE LET shorter == SeqsUpTo(S, n - 1)
         IN  shorter \cup {Append(q, x) : q \in {r \in shorter : Len(r) = n - 1}, x \in S}

Sheets == SeqsUpTo(SampleRows, MaxRows)

\* dropna with how="all": a row goes only when all three fields are missing
dropnaAll(d) ==
    SelectSeq(d, LAMBDA r : notna(r.Jurisdiction) \/ notna(r.Law) \/ notna(r.Significance))

\* df.dropna(subset=["Jurisdiction", "Law/Subprovision", "Significance"])
dropna(d) ==
    SelectSeq(d, LAMBDA r : notna(r.Jurisdiction) /\ notna(r.Law) /\ notna(r.Significance))

column(d, c) == [n \in 1..Len(d) |-> d[n][c]]

----------------------------------------------------------------------------
(* The database *)

\* setup_db.py: four empty tables.
EmptyDB == [jurisdictions |-> <<>>, sectors |-> <<>>, laws |-> <<>>, barriers |-> <<>>]

\* setup_db.py declares `name TEXT` in jurisdictions and in sectors: no UNIQUE
\* constraint, so INSERT OR IGNORE has no conflict to ignore.
NameIsUnique == FALSE

\* id INTEGER PRIMARY KEY AUTOINCREMENT on a table that never loses a row
nextId(table) == Len(table) + 1

\* INSERT OR IGNORE INTO <table> (name) VALUES (?)
insertOrIgnore(table, name) ==
    IF NameIsUnique /\ \E n \in 1..Len(table) : table[n].name = name
    THEN table
    ELSE Append(table, [id |-> nextId(table), name |-> name])

\* the lookup taking the position (counted from 0) for the id
selectIdZeroBased(table, name) ==
    LET hits == {n \in 1..Len(table) : table[n].name = name}
    IN  IF hits = {} THEN <<>>
        ELSE <<(CHOOSE n \in hits : \A m \in hits : n <= m) - 1>>

\* SELECT id FROM <table> WHERE name = ? ; fetchone(): the first matching row
\* in rowid order, <<>> standing for None
selectId(table, name) ==
    LET hits == {n \in 1..Len(table) : table[n].name = name}
    IN  IF hits = {} THEN <<>>
        ELSE <<table[CHOOSE n \in hits : \A m \in hits : n <= m].id>>

Ids(table) == {table[n].id : n \in 1..Len(table)}
Names(table) == {table[n].name : n \in 1..Len(table)}

----------------------------------------------------------------------------
(* import_laws_from_excel.py *)

RiskScore == 5

General == <<"G", "e", "n", "e", "r", "a", "l">>
Mixed == <<"M", "i", "x", "e", "d">>
Unrated == <<"U", "n", "r", "a", "t", "e", "d">>

\* f"Relevant to {innovation_stage} stage in {industry}"
description(innovation_stage, industry) ==
    <<"R", "e", "l", "e", "v", "a", "n", "t", " ", "t", "o", " ">> \o innovation_stage
        \o <<" ", "s", "t", "a", "g", "e", " ", "i", "n", " ">> \o industry

\* Step 2, lines 23-27: the trimmed comma-split industries of the rows of d
sectorsOf(d) ==
    UNION { Range(stripAll(split(d[n].RelevantIndustry, ","))) :
            n \in {m \in 1..Len(d) : notna(d[m].RelevantIndustry)} }

\* line 36
industriesOf(row) ==
    IF notna(row.RelevantIndustry) THEN split(row.RelevantIndustry, ",") ELSE <<>>

\* line 37
stageOf(row) == IF notna(row.InnovationStage) THEN row.InnovationStage ELSE General

\* the INSERT binding the name as read, without strip()
jurisdictionValueRaw(name) == name

\* line 20: the value bound to the INSERT of a jurisdiction
jurisdictionValue(name) == strip(name)

\* line 33: the name the law's jurisdiction is looked up by
jurisName(row) == strip(row.Jurisdiction)

\* a connection in autocommit mode: every INSERT is on disk at once
afterCloseAutocommit(committed, uncommitted) == uncommitted

\* What legal_data.db holds once the connection is gone without conn.commit():
\* sqlite3.connect() opens the implicit transaction at the first INSERT, and
\* only line 66 commits it.
afterClose(committed, uncommitted) == committed

\* Lines 5-18: read the sheet, drop the incomplete rows, connect, take the
\* unique jurisdictions.
Load ==
    /\ pc = "load"
    /\ retained' = dropna(df)
    /\ jurisdictions' = unique(column(dropna(df), "Jurisdiction"))
    /\ conn' = disk
    /\ pc' = "step1"
    /\ UNCHANGED <<df, all_sectors, i, industries, k, law_id, lawRow, disk, executed,
                   skippedLaws, skippedBarriers>>
    /\ UNCHANGED dashVars

\* Lines 19-20: one pass of the loop over jurisdictions.
InsertJurisdiction ==
    /\ pc = "step1"
    /\ jurisdictions # <<>>
    /\ conn' = [conn EXCEPT !.jurisdictions =
                    insertOrIgnore(@, jurisdictionValue(Head(jurisdictions)))]
    /\ jurisdictions' = Tail(jurisdictions)
    /\ executed' = executed + 1
    /\ UNCHANGED <<df, pc, retained, all_sectors, i, industries, k, law_id, lawRow, disk,
                   skippedLaws, skippedBarriers>>
    /\ UNCHANGED dashVars

\* Lines 23-27: build the set all_sectors.
CollectSectors ==
    /\ pc = "step1"
    /\ jurisdictions = <<>>
    /\ all_sectors' = sectorsOf(retained)
    /\ pc' = "step2"
    /\ UNCHANGED <<df, retained, jurisdictions, i, industries, k, law_id, lawRow, conn, disk,
                   executed, skippedLaws, skippedBarriers>>
    /\ UNCHANGED dashVars

\* Lines 28-29: one pass of the loop over the set, in the order the set
\* happens to iterate.
InsertSector ==
    /\ pc = "step2"
    /\ \E sector \in all_sectors :
        /\ conn' = [conn EXCEPT !.sectors = insertOrIgnore(@, sector)]
        /\ all_sectors' = all_sectors \ {sector}
    /\ executed' = executed + 1
    /\ UNCHANGED <<df, pc, retained, jurisdictions, i, industries, k, law_id, lawRow, disk,
                   skippedLaws, skippedBarriers>>
    /\ UNCHANGED dashVars

\* Line 32: enter the loop over the rows.
BeginLaws ==
    /\ pc = "step2"
    /\ all_sectors = {}
    /\ i' = 1
    /\ pc' = "step3"
    /\ UNCHANGED <<df, retained, jurisdictions, all_sectors, industries, k, law_id, lawRow,
                   conn, disk, executed, skippedLaws, skippedBarriers>>
    /\ UNCHANGED dashVars

\* Lines 32-52: one pass of the loop over the rows, up to the law insert. The
\* row is skipped when its jurisdiction is not found (line 43), after line 36
\* has assigned its industries.
LawStep ==
    /\ pc = "step3"
    /\ i <= Len(retained)
    /\ LET row == retained[i]
           juris_id == selectId(conn.jurisdictions, jurisName(row))
           id == nextId(conn.laws)
       IN  IF juris_id = <<>>
           THEN /\ skippedLaws' = skippedLaws + 1
                /\ i' = i + 1
                /\ industries' = industriesOf(row)
                /\ UNCHANGED <<pc, conn, law_id, lawRow, k, executed>>
           ELSE /\ conn' = [conn EXCEPT !.laws =
                               Append(@, [id |-> id, jurisdiction_id |-> juris_id[1],
                                          name |-> strip(row.Law), type |-> Mixed,
                                          summary |-> strip(row.Significance),
                                          enforceability |-> Unrated])]
                /\ law_id' = id
                /\ lawRow' = Append(lawRow, i)
                /\ industries' = industriesOf(row)
                /\ k' = 1
                /\ IF industriesOf(row) = <<>>
                   THEN pc' = "step3" /\ i' = i + 1
                   ELSE pc' = "barriers" /\ i' = i
                /\ executed' = executed + 1
                /\ UNCHANGED skippedLaws
    /\ UNCHANGED <<df, retained, jurisdictions, all_sectors, disk, skippedBarriers>>
    /\ UNCHANGED dashVars

\* Lines 55-64: one pass of the loop over industries.
BarrierStep ==
    /\ pc = "barriers"
    /\ k <= Len(industries)
    /\ LET industry == strip(industries[k])
           result == selectId(conn.sectors, industry)
       IN  IF result # <<>>
           THEN /\ conn' = [conn EXCEPT !.barriers =
                               Append(@, [id |-> nextId(conn.barriers), law_id |-> law_id,
                                          sector_id |-> result[1],
                                          risk_score |-> RiskScore,
                                          description |->
                                              description(stageOf(retained[i]), industry)])]
                /\ executed' = executed + 1
                /\ UNCHANGED skippedBarriers
           ELSE /\ skippedBarriers' = skippedBarriers + 1
                /\ UNCHANGED <<conn, executed>>
    /\ k' = k + 1
    /\ IF k = Len(industries)
       THEN pc' = "step3" /\ i' = i + 1
       ELSE pc' = "barriers" /\ i' = i
    /\ UNCHANGED <<df, retained, jurisdictions, all_sectors, industries, law_id, lawRow,
                   disk, skippedLaws>>
    /\ UNCHANGED dashVars

\* Lines 66-67: conn.commit(), conn.close().
Commit ==
    /\ pc = "step3"
    /\ i > Len(retained)
    /\ disk' = conn
    /\ pc' = "done"
    /\ UNCHANGED <<df, retained, jurisdictions, all_sectors, i, industries, k, law_id,
                   lawRow, conn, executed, skippedLaws, skippedBarriers>>
    /\ UNCHANGED dashVars

\* The run ends before line 66 (an exception of a statement, or the process is
\* stopped): the connection goes away with its transaction open.
Fail ==
    /\ pc \in {"step1", "step2", "step3", "barriers"}
    /\ disk' = afterClose(disk, conn)
    /\ pc' = "failed"
    /\ UNCHANGED <<df, retained, jurisdictions, all_sectors, i, industries, k, law_id,
                   lawRow, conn, executed, skippedLaws, skippedBarriers>>
    /\ UNCHANGED dashVars

----------------------------------------------------------------------------
(* app.py: the data *)

UnitedStates ==
    <<"U", "n", "i", "t", "e", "d", " ", "S", "t", "a", "t", "e", "s">>
EuropeanUnion ==
    <<"E", "u", "r", "o", "p", "e", "a", "n", " ", "U", "n", "i", "o", "n">>
UnitedKingdom ==
    <<"U", "n", "i", "t", "e", "d", " ", "K", "i", "n", "g", "d", "o", "m">>
Canada ==
    <<"C", "a", "n", "a", "d", "a">>
AllIndustries ==
    <<"A", "l", "l", " ", "I", "n", "d", "u", "s", "t", "r", "i", "e", "s">>
Luxury ==
    <<"L", "u", "x", "u", "r", "y">>
Entertainment ==
    <<"E", "n", "t", "e", "r", "t", "a", "i", "n", "m", "e", "n", "t">>
Pharmaceuticals ==
    <<"P", "h", "a", "r", "m", "a", "c", "e", "u", "t", "i", "c", "a", "l", "s">>
Technology ==
    <<"T", "e", "c", "h", "n", "o", "l", "o", "g", "y">>
Fintech ==
    <<"F", "i", "n", "t", "e", "c", "h">>

\* The variants line 108 rewrites (EU is defined above).
UK ==
    <<"U", "K">>
UnitedStatesOfAmerica ==
    <<"U", "n", "i", "t", "e", "d", " ", "S", "t", "a", "t", "e", "s", " ", "o", "f", " ", "A", "m", "e", "r", "i", "c", "a">>

UpperCase ==
    <<"A", "B", "C", "D", "E", "F", "G", "H", "I", "J", "K", "L", "M", "N", "O", "P", "Q", "R", "S", "T", "U", "V", "W", "X", "Y", "Z">>
LowerCase ==
    <<"a", "b", "c", "d", "e", "f", "g", "h", "i", "j", "k", "l", "m", "n", "o", "p", "q", "r", "s", "t", "u", "v", "w", "x", "y", "z">>

\* line 50
industryList == <<AllIndustries, Luxury, Entertainment, Pharmaceuticals, Technology, Fintech>>

\* lines 54-62: score_df, the scores in tenths
ScoreRow(j, lux, ent, pha, tec, fin) ==
    [Jurisdiction |-> j,
     score |-> (Luxury :> lux) @@ (Entertainment :> ent) @@ (Pharmaceuticals :> pha)
                   @@ (Technology :> tec) @@ (Fintech :> fin)]

score_df ==
    << ScoreRow(UnitedStates, 83, 88, 90, 85, 81),
       ScoreRow(EuropeanUnion, 85, 84, 83, 84, 83),
       ScoreRow(UnitedKingdom, 82, 81, 80, 82, 88),
       ScoreRow(Canada, 69, 67, 71, 73, 67) >>

\* line 75: the columns the mean is taken over
meanColumns == <<Luxury, Entertainment, Pharmaceuticals, Technology, Fintech>>

\* The spreadsheet as app.py reads it (all seven columns).
DashRow(j, ind) ==
    [Jurisdiction |-> j, Law |-> <<"A">>, Significance |-> <<"S">>,
     RelevantIndustry |-> ind, InnovationStage |-> <<"R", "D">>,
     Enforceability |-> <<"H">>, RiskScore |-> <<"7">>]

\* The rows the dashboard's spreadsheet is drawn from: each name variant of
\* line 108, a canonical name, a name that is no option of the multiselect, an
\* empty jurisdiction, industries in other letter case (small letters, capitals,
\* a dotless i), several industries in one cell, and an empty industry cell.
DashSampleRows ==
    { DashRow(UK, Technology \o <<";", " ">> \o Fintech),
      DashRow(Canada, <<"f", "U+0131", "n", "t", "e", "c", "h">>),
      DashRow(EU, NaN),
      DashRow(UnitedStatesOfAmerica,
              <<"L", "U", "X", "U", "R", "Y">> \o <<",", " ">> \o Entertainment),
      DashRow(US, Technology),
      DashRow(NaN, Pharmaceuticals) }

DashSheets == SeqsUpTo(DashSampleRows, MaxDashRows)

----------------------------------------------------------------------------
(* app.py: the script *)

RECURSIVE sum(_)
sum(s) == IF s = <<>> THEN 0 ELSE Head(s) + sum(Tail(s))

\* the mean taken over one column too many
meanOneMore(values) == (sum(values) * 10) \div (Len(values) + 1)

\* DataFrame.mean(axis=1) of values in tenths, in hundredths
mean(values) == (sum(values) * 10) \div Len(values)

\* lines 74-79: the Innovation Score column, in hundredths
innovationScore(row, industry) ==
    IF industry = AllIndustries
    THEN mean([n \in 1..Len(meanColumns) |-> row.score[meanColumns[n]]])
    ELSE row.score[industry] * 10

\* line 87: the rows of score_df whose Jurisdiction isin(selected), with their
\* index, Jurisdiction and Innovation Score (the Explanation column is a fixed
\* text per jurisdiction and is left out)
filterScores(industry, selected) ==
    LET scored == [n \in 1..Len(score_df) |->
                      [index |-> n - 1, Jurisdiction |-> score_df[n].Jurisdiction,
                       InnovationScore |-> innovationScore(score_df[n], industry)]]
    IN  SelectSeq(scored, LAMBDA r : r.Jurisdiction \in selected)

\* the replacement table without its "EU" entry
replaceJurisdictionNoEU(v) ==
    IF v = UK THEN UnitedKingdom
    ELSE IF v = UnitedStatesOfAmerica THEN UnitedStates
    ELSE v

\* lines 108-112: Series.replace on whole cell values
replaceJurisdiction(v) ==
    IF v = UK THEN UnitedKingdom
    ELSE IF v = EU THEN EuropeanUnion
    ELSE IF v = UnitedStatesOfAmerica THEN UnitedStates
    ELSE v

\* The characters outside A-Z that re.IGNORECASE lets a letter a-z match:
\* capital I with dot, dotless i, long s and the Kelvin sign.
foldedOf ==
    ("U+0130" :> "i") @@ ("U+0131" :> "i") @@ ("U+017F" :> "s") @@ ("U+212A" :> "k")

lowerOf == [c \in Range(UpperCase) |->
               LowerCase[CHOOSE n \in 1..Len(UpperCase) : UpperCase[n] = c]]
           @@ foldedOf

\* re.IGNORECASE compares characters without regard to case: two characters
\* match when they have the same value here
lower(c) == IF c \in DOMAIN lowerOf THEN lowerOf[c] ELSE c

startsWith(s, pat) ==
    /\ Len(pat) <= Len(s)
    /\ \A q \in 1..Len(pat) : lower(s[q]) = lower(pat[q])

RECURSIVE search(_, _)
search(s, pat) ==
    IF startsWith(s, pat) THEN TRUE
    ELSE IF s = <<>> THEN FALSE
    ELSE search(Tail(s), pat)

\* Series.str.contains(pat, case=False, na=False), pat free of regex syntax
contains(v, pat) == IF notna(v) THEN search(v, pat) ELSE FALSE

\* lines 115-121: which rows of the normalized sheet are kept
keepRow(row, industry, selected) ==
    IF industry = AllIndustries
    THEN row.Jurisdiction \in selected
    ELSE row.Jurisdiction \in selected /\ contains(row.RelevantIndustry, industry)

\* lines 106-123: the legislation table, rows carrying their index in the
\* sheet, of a run in which line 120 does not raise
filterLegislation(d, industry, selected) ==
    LET normalized == [n \in 1..Len(d) |->
                          [d[n] EXCEPT !.Jurisdiction = replaceJurisdiction(@)]]
        shown == [n \in 1..Len(d) |->
                     [index |-> n - 1,
                      Jurisdiction |-> normalized[n].Jurisdiction,
                      Law |-> d[n].Law, Significance |-> d[n].Significance,
                      InnovationStage |-> d[n].InnovationStage,
                      Enforceability |-> d[n].Enforceability,
                      RiskScore |-> d[n].RiskScore]]
        kept == {n \in 1..Len(d) : keepRow(normalized[n], industry, selected)}
    IN  SelectSeq(shown, LAMBDA r : (r.index + 1) \in kept)

\* no fallback to pdfkit's own lookup
binaryFoundHardcodedOnly(e) == e.hardcoded

\* lines 179-183: pdfkit.configuration(...) finds an executable, at the
\* hardcoded path when it exists and else by pdfkit's own lookup
binaryFound(e) == IF e.hardcoded THEN TRUE ELSE e.onPath

\* lines 178-194: the try block reaches st.download_button, or any exception
\* of it ends in st.info
pdfExport(e) == IF binaryFound(e) /\ e.renders THEN "download" ELSE "info"

\* line 120: df["Relevant Industry"].str raises AttributeError when the column
\* holds no text (a sheet with rows, every Relevant Industry cell empty:
\* read_excel gives a float64 column)
strAccessorRaises(d) ==
    /\ d # <<>>
    /\ \A n \in 1..Len(d) : d[n].RelevantIndustry = NaN

\* lines 115-121 raise
filterRaises(d, industry) == industry # AllIndustries /\ strAccessorRaises(d)

\* One run of the script with the widgets at (industry, selected). A run in
\* which line 120 raises stops there: the scores are computed and charted,
\* legislation is not assigned and the exports are not reached.
Script(industry, selected) ==
    /\ selected_industry' = industry
    /\ selected_jurisdictions' = selected
    /\ filtered_scores' = filterScores(industry, selected)
    /\ IF filterRaises(df, industry)
       THEN /\ legislation' = Unassigned
            /\ pdf' = "none"
            /\ pc' = "error"
       ELSE /\ legislation' = filterLegislation(df, industry, selected)
            /\ pdf' = pdfExport(env)
            /\ pc' = "shown"
    /\ UNCHANGED <<df, env>>
    /\ UNCHANGED <<retained, jurisdictions, all_sectors, i, industries, k, law_id, lawRow,
                   conn, disk, executed, skippedLaws, skippedBarriers>>

allJurisdictions == {score_df[n].Jurisdiction : n \in 1..Len(score_df)}

\* The first run of a session: the selectbox at its first option, the
\* multiselect at its default (all jurisdictions).
Open ==
    /\ pc = "session"
    /\ Script(industryList[1], allJurisdictions)

\* The user picks another industry; the script runs again (the widgets are
\* drawn before line 120, so they stay usable after a run that raised).
SelectIndustry ==
    /\ pc \in {"shown", "error"}
    /\ \E industry \in Range(industryList) \ {selected_industry} :
           Script(industry, selected_jurisdictions)

\* The user adds a jurisdiction to the multiselect; the script runs again.
AddJurisdiction ==
    /\ pc \in {"shown", "error"}
    /\ \E j \in allJurisdictions \ selected_jurisdictions :
           Script(selected_industry, selected_jurisdictions \cup {j})

\* The user removes a jurisdiction from the multiselect; the script runs again.
RemoveJurisdiction ==
    /\ pc \in {"shown", "error"}
    /\ \E j \in selected_jurisdictions :
           Script(selected_industry, selected_jurisdictions \ {j})

----------------------------------------------------------------------------
(* Specifications *)

NoEnv == [hardcoded |-> FALSE, onPath |-> FALSE, renders |-> FALSE]

\* The import on the database setup_db.py has just created.
Init ==
    /\ df \in Sheets
    /\ pc = "load"
    /\ retained = <<>>
    /\ jurisdictions = <<>>
    /\ all_sectors = {}
    /\ i = 0
    /\ industries = <<>>
    /\ k = 0
    /\ law_id = 0
    /\ lawRow = <<>>
    /\ conn = EmptyDB
    /\ disk = EmptyDB
    /\ executed = 0
    /\ skippedLaws = 0
    /\ skippedBarriers = 0
    /\ env = NoEnv
    /\ selected_industry = AllIndustries
    /\ selected_jurisdictions = {}
    /\ filtered_scores = Unassigned
    /\ legislation = Unassigned
    /\ pdf = "none"

Next ==
    \/ Load
    \/ InsertJurisdiction
    \/ CollectSectors
    \/ InsertSector
    \/ BeginLaws
    \/ LawStep
    \/ BarrierStep
    \/ Commit
    \/ Fail

Spec == Init /\ [][Next]_vars

\* A dashboard session over a spreadsheet, on a machine where wkhtmltopdf is
\* or is not at the hardcoded path, is or is not found by pdfkit's lookup, and
\* does or does not render.
InitDash ==
    /\ df \in DashSheets
    /\ pc = "session"
    /\ retained = <<>>
    /\ jurisdictions = <<>>
    /\ all_sectors = {}
    /\ i = 0
    /\ industries = <<>>
    /\ k = 0
    /\ law_id = 0
    /\ lawRow = <<>>
    /\ conn = EmptyDB
    /\ disk = EmptyDB
    /\ executed = 0
    /\ skippedLaws = 0
    /\ skippedBarriers = 0
    /\ env \in [hardcoded : BOOLEAN, onPath : BOOLEAN, renders : BOOLEAN]
    /\ selected_industry = AllIndustries
    /\ selected_jurisdictions = {}
    /\ filtered_scores = Unassigned
    /\ legislation = Unassigned
    /\ pdf = "none"

NextDash ==
    \/ Open
    \/ SelectIndustry
    \/ AddJurisdiction
    \/ RemoveJurisdiction

SpecDash == InitDash /\ [][NextDash]_vars

----------------------------------------------------------------------------
(* Properties of the import (checked under Spec) *)

\* A spreadsheet row with its three required fields present.
Complete(r) == r.Jurisdiction # NaN /\ r.Law # NaN /\ r.Significance # NaN

CompleteRows == SelectSeq(df, Complete)

NoTwoSameName(table) ==
    \A a, b \in 1..Len(table) : a # b => table[a].name # table[b].name

\* The distinct trimmed comma-separated industries of a row.
SectorsOfRow(r) ==
    IF r.RelevantIndustry = NaN THEN {}
    ELSE {strip(t) : t \in Range(split(r.RelevantIndustry, ","))}

NameOfId(table, id) == (CHOOSE n \in 1..Len(table) : table[n].id = id)

\* C1: after an import run no two jurisdictions rows and no two sectors rows
\* have the same name, the jurisdictions names are the distinct trimmed
\* Jurisdiction values of the retained rows, and the sectors names are the
\* distinct trimmed comma-split Relevant Industry values of the retained rows.
C1_UniqueNames ==
    pc = "done" =>
        /\ NoTwoSameName(disk.jurisdictions)
        /\ NoTwoSameName(disk.sectors)
        /\ Names(disk.jurisdictions) =
               {strip(CompleteRows[n].Jurisdiction) : n \in 1..Len(CompleteRows)}
        /\ Names(disk.sectors) =
               UNION {SectorsOfRow(CompleteRows[n]) : n \in 1..Len(CompleteRows)}

References(db) ==
    /\ \A n \in 1..Len(db.laws) : db.laws[n].jurisdiction_id \in Ids(db.jurisdictions)
    /\ \A n \in 1..Len(db.barriers) :
           /\ db.barriers[n].law_id \in Ids(db.laws)
           /\ db.barriers[n].sector_id \in Ids(db.sectors)

\* C2: in every database state during and after an import run, every law's
\* jurisdiction_id is the id of a jurisdictions row and every barrier's law_id
\* and sector_id are the ids of a laws row and of a sectors row.
C2_References == References(conn) /\ References(disk)

\* Witness of C2: a finished run that committed laws and barriers.
C2_Witness ==
    /\ pc = "done"
    /\ Len(disk.laws) >= 2
    /\ Len(disk.barriers) >= 2
    /\ Len(disk.jurisdictions) >= 2

\* C3: an import run inserts exactly one law for each spreadsheet row whose
\* Jurisdiction, Law/Subprovision and Significance are all present, in the
\* order of the sheet, and no law for a row missing one of the three.
C3_OneLawPerCompleteRow ==
    pc = "done" =>
        /\ Len(disk.laws) = Len(CompleteRows)
        /\ \A n \in 1..Len(disk.laws) :
               /\ disk.laws[n].name = strip(CompleteRows[n].Law)
               /\ disk.laws[n].summary = strip(CompleteRows[n].Significance)
               /\ disk.jurisdictions[NameOfId(disk.jurisdictions,
                                              disk.laws[n].jurisdiction_id)].name
                      = strip(CompleteRows[n].Jurisdiction)

\* Witness of C3: a finished run over a sheet with complete rows and with a
\* row missing a required field.
C3_Witness ==
    /\ pc = "done"
    /\ Len(disk.laws) >= 1
    /\ Len(CompleteRows) < Len(df)
    /\ \E n \in 1..Len(df) : df[n].Jurisdiction # NaN /\ ~Complete(df[n])

BarriersOfLaw(db, id) == {n \in 1..Len(db.barriers) : db.barriers[n].law_id = id}

\* C4: for every inserted law the barriers table holds exactly one row per
\* sector associated with the law's spreadsheet row, and no two barriers rows
\* share the same (law_id, sector_id).
C4_OneBarrierPerSector ==
    pc = "done" =>
        /\ \A n \in 1..Len(disk.laws) :
               LET row == retained[lawRow[n]]
                   bs == BarriersOfLaw(disk, disk.laws[n].id)
                   sectorName(b) ==
                       disk.sectors[NameOfId(disk.sectors, disk.barriers[b].sector_id)].name
               IN  /\ \A b \in bs : sectorName(b) \in SectorsOfRow(row)
                   /\ \A sec \in SectorsOfRow(row) :
                          Cardinality({b \in bs : sectorName(b) = sec}) = 1
        /\ \A a, b \in 1..Len(disk.barriers) :
               a # b => <<disk.barriers[a].law_id, disk.barriers[a].sector_id>>
                        # <<disk.barriers[b].law_id, disk.barriers[b].sector_id>>

Rows(db) == Len(db.jurisdictions) + Len(db.sectors) + Len(db.laws) + Len(db.barriers)

\* C5 as stated: a run that fails after some of its inserts have executed
\* leaves the database on disk partially populated (some of the run's rows are
\* persisted).
C5_PartialOnFailure ==
    (pc = "failed" /\ executed > 0) => Rows(disk) > 0

\* C5 as amended: a run that fails partway leaves none of its rows in the
\* database on disk, and a run that finishes leaves all of them: the inserts
\* are persisted together by the one commit.
C5_AllOrNothing ==
    /\ pc = "failed" => disk = EmptyDB
    /\ pc = "done" => disk = conn /\ Rows(disk) = executed

\* Witness of C5: a run that failed after inserting into every table.
C5_Witness ==
    /\ pc = "failed"
    /\ Len(conn.jurisdictions) >= 1
    /\ Len(conn.sectors) >= 1
    /\ Len(conn.laws) >= 1
    /\ Len(conn.barriers) >= 1

\* C10: in an import run on a fresh database neither skip is ever taken (every
\* jurisdiction lookup and every sector lookup finds a row), and no law or
\* barrier is inserted before the jurisdiction and sector inserts are over.
C10_NoSkip ==
    /\ skippedLaws = 0
    /\ skippedBarriers = 0
    /\ pc \in {"step3", "barriers"} => jurisdictions = <<>> /\ all_sectors = {}
    /\ pc \in {"load", "step1", "step2"} => conn.laws = <<>> /\ conn.barriers = <<>>

\* Witness of C10: a finished run that looked up an untrimmed jurisdiction
\* name and an untrimmed industry.
C10_Witness ==
    /\ pc = "done"
    /\ \E n \in 1..Len(retained) :
           /\ strip(retained[n].Jurisdiction) # retained[n].Jurisdiction
           /\ retained[n].RelevantIndustry # NaN
           /\ \E t \in Range(split(retained[n].RelevantIndustry, ",")) : strip(t) # t
    /\ Len(disk.laws) >= 2
    /\ Len(disk.barriers) >= 2

----------------------------------------------------------------------------
(* Properties of the dashboard (checked under SpecDash) *)

\* The cell v names, after the rewriting of line 108, a jurisdiction of S.
NormalizedIn(v, S) ==
    \/ v \in S
    \/ v = UK /\ UnitedKingdom \in S
    \/ v = EU /\ EuropeanUnion \in S
    \/ v = UnitedStatesOfAmerica /\ UnitedStates \in S

\* The forms of the n-th letter: small, capital, and for i, s and k the
\* further characters Unicode gives the same case folding.
LetterForms(n) ==
    {UpperCase[n], LowerCase[n]}
        \cup (IF LowerCase[n] = "i" THEN {"U+0130", "U+0131"} ELSE {})
        \cup (IF LowerCase[n] = "s" THEN {"U+017F"} ELSE {})
        \cup (IF LowerCase[n] = "k" THEN {"U+212A"} ELSE {})

SameLetter(a, b) ==
    \/ a = b
    \/ \E n \in 1..Len(UpperCase) : {a, b} \subseteq LetterForms(n)

\* pat occurs in v, letter case aside.
OccursIn(pat, v) ==
    \E p \in 0..(Len(v) - Len(pat)) :
        \A q \in 1..Len(pat) : SameLetter(v[p + q], pat[q])

Indexes(table) == {table[n].index : n \in 1..Len(table)}

NoRowTwice(table) == Cardinality(Indexes(table)) = Len(table)

\* C6: the score table holds exactly the score rows whose Jurisdiction is
\* selected; the legislation table, in every run that displays one, holds only
\* spreadsheet rows whose normalized Jurisdiction is selected and, under
\* "All Industries", all of them.
C6_JurisdictionFilter ==
    /\ pc \in {"shown", "error"} =>
        /\ NoRowTwice(filtered_scores)
        /\ Indexes(filtered_scores) =
               {n - 1 : n \in {m \in 1..Len(score_df) :
                                  score_df[m].Jurisdiction \in selected_jurisdictions}}
        /\ \A n \in 1..Len(filtered_scores) :
               filtered_scores[n].Jurisdiction
                   = score_df[filtered_scores[n].index + 1].Jurisdiction
    /\ pc = "shown" =>
        /\ NoRowTwice(legislation)
        /\ \A x \in Indexes(legislation) :
               NormalizedIn(df[x + 1].Jurisdiction, selected_jurisdictions)
    /\ (pc \in {"shown", "error"} /\ selected_industry = AllIndustries) =>
        /\ pc = "shown"
        /\ Indexes(legislation) =
               {n - 1 : n \in {m \in 1..Len(df) :
                                  NormalizedIn(df[m].Jurisdiction,
                                               selected_jurisdictions)}}

\* Witness of C6: some but not all jurisdictions are selected, a row with a
\* name variant is shown and another row is filtered out.
C6_Witness ==
    /\ pc = "shown"
    /\ selected_jurisdictions # {}
    /\ selected_jurisdictions # allJurisdictions
    /\ \E x \in Indexes(legislation) : df[x + 1].Jurisdiction \notin selected_jurisdictions
    /\ Len(legislation) < Len(df)
    /\ Len(filtered_scores) \in 1..3

\* C7: with one industry selected, the run shows a legislation table that
\* holds exactly the spreadsheet rows whose Jurisdiction is selected and whose
\* Relevant Industry contains the industry's name, letter case aside (rows
\* without a Relevant Industry are left out), and the Innovation Score is that
\* industry's column.
C7_IndustryFilter ==
    (pc \in {"shown", "error"} /\ selected_industry # AllIndustries) =>
        /\ pc = "shown"
        /\ NoRowTwice(legislation)
        /\ Indexes(legislation) =
               {n - 1 : n \in {m \in 1..Len(df) :
                   /\ NormalizedIn(df[m].Jurisdiction, selected_jurisdictions)
                   /\ df[m].RelevantIndustry # NaN
                   /\ OccursIn(selected_industry, df[m].RelevantIndustry)}}
        /\ \A n \in 1..Len(filtered_scores) :
               filtered_scores[n].InnovationScore
                   = 10 * score_df[filtered_scores[n].index + 1].score[selected_industry]

\* C8: under "All Industries" the Innovation Score of a jurisdiction is the
\* arithmetic mean of its five industry scores; for United States it is 8.54
\* (in hundredths: 854).
C8_MeanOfFive ==
    (pc \in {"shown", "error"} /\ selected_industry = AllIndustries) =>
        \A n \in 1..Len(filtered_scores) :
            LET sc == score_df[filtered_scores[n].index + 1].score
            IN  /\ 5 * filtered_scores[n].InnovationScore =
                       10 * (sc[Luxury] + sc[Entertainment] + sc[Pharmaceuticals]
                             + sc[Technology] + sc[Fintech])
                /\ filtered_scores[n].Jurisdiction = UnitedStates =>
                       filtered_scores[n].InnovationScore = 854

\* Witness of C8: "All Industries" with United States among the displayed
\* rows.
C8_Witness ==
    /\ pc = "shown"
    /\ selected_industry = AllIndustries
    /\ \E n \in 1..Len(filtered_scores) : filtered_scores[n].Jurisdiction = UnitedStates
    /\ Len(filtered_scores) >= 2

\* C9 as stated: when the binary is not at the hardcoded path the run offers
\* no PDF download and shows the message; the download is offered only when
\* the binary is at that path.
C9_HardcodedPathOnly ==
    pc = "shown" =>
        /\ ~env.hardcoded => pdf = "info"
        /\ pdf = "download" => env.hardcoded

\* C9 as amended: a run that reaches the PDF export offers the download
\* exactly when a binary is found, at the hardcoded path or else by pdfkit's
\* own lookup, and renders; in every other case it shows the message, and the
\* export never ends the run. A run that line 120 has stopped reaches no export:
\* it offers no download and shows no message of the export.
C9_FoundAnywhere ==
    /\ pc = "shown" =>
        /\ pdf = "download" <=> ((env.hardcoded \/ env.onPath) /\ env.renders)
        /\ pdf = "info" <=> ~((env.hardcoded \/ env.onPath) /\ env.renders)
    /\ pc = "error" => pdf = "none"

\* Witness of C9: no binary at the hardcoded path or anywhere else, and the
\* run completed with the message.
C9_Witness ==
    /\ pc = "shown"
    /\ ~env.hardcoded
    /\ ~env.onPath
    /\ pdf = "info"
    /\ filtered_scores # <<>>

====
